---- MODULE Spec2Model ----
(***************************************************************************)
(* Model of the Unifi guest portal backend: the login cache (package       *)
(* cache), the HTTP handlers of package router, the controller client of   *)
(* package authorization and the audit writer of package db.               *)
(*                                                                         *)
(* Strings are modelled as follows: a cache id (a UUID string) is a        *)
(* positive integer and the empty string is 0; device and access point     *)
(* identifiers are TLA+ strings.  The program never looks into a username   *)
(* or an email, it only copies them to the audit table: a login body that  *)
(* has them carries a username and an email of its own, modelled by the    *)
(* number of the request, and the session the controller opens for a login *)
(* is modelled the same way.  One unit of                                  *)
(* the clock is the purge threshold (one hour); the 30 second ticker fires *)
(* many times per unit, so a tick may arrive at any moment.  Values that   *)
(* are written and never read by the program (the Timestamp of the copy    *)
(* GetRecord returns, the duration and created_at columns of the audit     *)
(* table) are left out.                                                    *)
(***************************************************************************)
EXTENDS Integers, FiniteSets, Sequences, TLC

\* ------------------------------------------------------------------ bounds
\* Number of handler goroutines that run at the same time.
MaxReq == 2
\* Number of HTTP requests that arrive in a run.
MaxServed == 3
\* Number of HTTP requests that arrive in a run of two guests, each with a
\* GET and a POST.
MaxServedGuests == 4
\* Last value of the clock.
MaxTime == 2

\* --------------------------------------------------------------- constants
\* purgeCache's threshold, time.Hour, in clock units.
MaxAge == 1
\* The zero value of sync.Mutex: unlocked.
Unlocked == 0
\* The empty string as a cache id.
NoCacheId == 0
\* The empty string as a username or an email (an absent JSON field decodes to it).
NoText == 0
\* The cookies and the CSRF token login returns with an error (nil and ""),
\* and those of a request that carries none.
NoSession == 0
\* HTTP statuses written by the handlers; NoResponse is a connection that
\* net/http closed without a response after the handler panicked.
StatusOK == 200
StatusSeeOther == 303
StatusBadRequest == 400
StatusNotFound == 404
NoResponse == 0

Reqs == 1..MaxReq
\* The goroutine of PurgeCacheEvery, as a holder of mu.
Purger == MaxReq + 1

\* Query strings of a GET, as the values of id and ap: "" is an absent (or
\* empty) parameter.
Queries == {[id |-> "", ap |-> ""], [id |-> "", ap |-> "a1"],
            [id |-> "d1", ap |-> "a1"], [id |-> "d2", ap |-> ""]}
Paths == {"/", "/guest/s/default/", "/app.js"}
\* What the file system gives serveFrontend for the file it looks up.
FileStates == {"present", "missing"}
\* Outcomes of one controller request: a transport error, a non-200 status, 200.
HttpOutcomes == {"error", "non200", "ok"}
\* Outcomes of the audit write: the first three end in log.Fatalf.
DbOutcomes == {"mkdir_failed", "open_failed", "table_failed", "insert_failed", "inserted"}

\* The nil *LoginCache.
Nil == [nil |-> TRUE]

VARIABLES
    loginMap,       \* cache.loginMap: cache id -> [ID, AP, Timestamp]
    mu,             \* cache.mu: Unlocked or the goroutine holding it
    nextToken,      \* the next value uuid.New() returns (never a value returned before)
    now,            \* the clock read by time.Now()
    purger,         \* the purge goroutine: [pc, threshold]
    handler,        \* per handler goroutine: its position and locals
    served,         \* number of requests that have arrived
    ctrl,           \* requests sent to the controller: set of
                    \* [req, cacheId, kind, mac, ap, session, verify], req and
                    \* cacheId naming the login submission that sent it
    user_sessions,  \* the audit table: cache_id -> row
    alive,          \* FALSE once log.Fatalf has ended the process
    DisableTLS      \* cfg.DisableTLS, as config.LoadEnv returned it

vars == <<loginMap, mu, nextToken, now, purger, handler, served, ctrl, user_sessions, alive, DisableTLS>>

IdleHandler ==
    [pc |-> "idle", req |-> 0, method |-> "", path |-> "", id |-> "", ap |-> "",
     cacheId |-> NoCacheId, name |-> NoText, email |-> NoText, body |-> "",
     found |-> "", cacheInfo |-> Nil, loginResp |-> "", authResp |-> "", authErr |-> "",
     dbResult |-> "",
     removed |-> "",
     status |-> NoResponse, location |-> "", embed |-> NoCacheId]

\* The process starts with the configuration disable for DisableTLS.
Started(disable) ==
    /\ loginMap = << >>
    /\ mu = Unlocked
    /\ nextToken = 1
    /\ now = 0
    /\ purger = [pc |-> "wait", threshold |-> 0]
    /\ handler = [r \in Reqs |-> IdleHandler]
    /\ served = 0
    /\ ctrl = {}
    /\ user_sessions = << >>
    /\ alive = TRUE
    /\ DisableTLS = disable

\* DISABLE_TLS is not set, or is no boolean: LoadEnv's default.
Init == Started(FALSE)

\* DISABLE_TLS is set to true or to false.
InitConfigured == \E disable \in BOOLEAN : Started(disable)

\* h with the fields of upd replaced.
With(h, upd) == [f \in DOMAIN h |-> IF f \in DOMAIN upd THEN upd[f] ELSE h[f]]

Set(r, upd) == handler' = [handler EXCEPT ![r] = With(handler[r], upd)]

\* The handler returns (or panics): its locals are gone; what stays is the
\* request it served (method, path, id, cacheId, the kind of its body), whether
\* GetRecord found an entry, the value RemoveFromCache returned and the
\* response the client got.
End(r, pc, response) ==
    handler' = [handler EXCEPT ![r] =
        With(IdleHandler, response @@ [pc |-> pc, req |-> handler[r].req,
                                       method |-> handler[r].method,
                                       path |-> handler[r].path,
                                       id |-> handler[r].id,
                                       cacheId |-> handler[r].cacheId,
                                       body |-> handler[r].body,
                                       found |-> handler[r].found,
                                       removed |-> handler[r].removed])]

\* A handler goroutine that is over.
Over(h) == h.pc \in {"idle", "done", "panicked"}

\* net/http starts a goroutine for a request that arrives: the request
\* takes the first free place, and is numbered in the order of arrival.
ArrivesWithin(r, request, max) ==
    /\ served < max
    /\ Over(handler[r])
    /\ \A q \in Reqs : q < r => ~Over(handler[q])
    /\ served' = served + 1
    /\ handler' = [handler EXCEPT ![r] = With(IdleHandler, request @@ [req |-> served + 1])]

Arrives(r, request) == ArrivesWithin(r, request, MaxServed)

\* delete(m, k)
Delete(m, k) == [x \in DOMAIN m \ {k} |-> m[x]]

\* m[k] = v
Store(m, k, v) == [x \in DOMAIN m \cup {k} |-> IF x = k THEN v ELSE m[x]]

\* ------------------------------------------------------- package cache
\* mu.Lock() returns when no goroutine holds mu.
\* Faulty variant: the lock is taken whoever holds it.
CanLockAlways(m) == TRUE
CanLock(m) == m = Unlocked

\* mu when GetRecord has returned to goroutine g: the deferred mu.Unlock() has run.
\* Faulty variant: GetRecord returns with mu still held by its caller.
GetRecordKeepsLock(g) == g
GetRecordReturns(g) == Unlocked

\* mu when RemoveFromCache has returned to goroutine g, the entry having
\* existed or not: the deferred mu.Unlock() has run on both returns.
\* Faulty variant: mu is released on the return that deleted the entry only.
RemoveReturnsLockedOnMiss(g, existed) == IF existed THEN Unlocked ELSE g
RemoveReturns(g, existed) == Unlocked

\* time.Time.Before
\* Faulty variant: the comparison also holds for equal times.
BeforeOrEqual(t, u) == t <= u
Before(t, u) == t < u

\* The map after loginMap[cacheID] = LoginCache{ID: id, AP: ap, Timestamp: time.Now()}.
\* Faulty variant: the entry is stored under a key already in the map.
AddedOverwritingFirst(m, cacheID, id, ap, t) ==
    LET k == IF DOMAIN m = {} THEN cacheID ELSE CHOOSE x \in DOMAIN m : \A y \in DOMAIN m : x <= y
    IN Store(m, k, [ID |-> id, AP |-> ap, Timestamp |-> t])
\* Faulty variant: a device that has an entry gets no second one.
AddedOncePerDevice(m, cacheID, id, ap, t) ==
    IF \E k \in DOMAIN m : m[k].ID = id
    THEN m
    ELSE Store(m, cacheID, [ID |-> id, AP |-> ap, Timestamp |-> t])
Added(m, cacheID, id, ap, t) == Store(m, cacheID, [ID |-> id, AP |-> ap, Timestamp |-> t])

\* What GetRecord returns: a pointer to a copy of the entry, or nil.
Copy(entry) == [ID |-> entry.ID, AP |-> entry.AP]
\* Faulty variant: GetRecord treats an entry older than the max age as absent.
GetRecordExpiring(m, cacheID, t) ==
    IF cacheID \in DOMAIN m /\ ~Before(m[cacheID].Timestamp, t - MaxAge) THEN Copy(m[cacheID]) ELSE Nil
\* Faulty variant: GetRecord returns the first entry of the map, whatever the key.
GetRecordFirst(m, cacheID, t) ==
    IF cacheID \in DOMAIN m
    THEN Copy(m[CHOOSE k \in DOMAIN m : \A x \in DOMAIN m : k <= x])
    ELSE Nil
GetRecordValue(m, cacheID, t) == IF cacheID \in DOMAIN m THEN Copy(m[cacheID]) ELSE Nil

\* The map GetRecord leaves: it reads loginMap[cacheID] and writes nothing.
\* Faulty variant: GetRecord takes the entry out of the map.
GetRecordTakes(m, cacheID) == [x \in DOMAIN m \ {cacheID} |-> m[x]]
GetRecordLeaves(m, cacheID) == m

\* What RemoveFromCache returns, and the map it leaves.
\* Faulty variant: RemoveFromCache reports a removal whether or not the entry was there.
RemoveAlwaysTrue(m, cacheID) == TRUE
RemoveResult(m, cacheID) == cacheID \in DOMAIN m

\* Faulty variant: RemoveFromCache leaves the entry in the map.
RemoveNothing(m, cacheID) == m
Removed(m, cacheID) == IF cacheID \in DOMAIN m THEN Delete(m, cacheID) ELSE m

\* purgeCache's threshold := time.Now().Add(-1 * time.Hour)
\* Faulty variant: the threshold lies two hours back.
ThresholdTwoHours(t) == t - MaxAge - MaxAge
Threshold(t) == t - MaxAge

\* purgeCache's loop over the keys todo of m (the order of a Go map range is
\* unspecified, and the result does not depend on it).
RECURSIVE PurgeLoop(_, _, _)
PurgeLoop(m, todo, threshold) ==
    IF todo = {}
    THEN m
    ELSE LET cacheID == CHOOSE k \in todo : TRUE
         IN PurgeLoop(IF Before(m[cacheID].Timestamp, threshold) THEN Delete(m, cacheID) ELSE m,
                      todo \ {cacheID}, threshold)

\* --------------------------------------------------------------- the clock
Tick ==
    /\ alive
    /\ now < MaxTime
    /\ now' = now + 1
    /\ UNCHANGED <<loginMap, mu, nextToken, purger, handler, served, ctrl, user_sessions, alive, DisableTLS>>

\* ------------------------------------------------- cache.PurgeCacheEvery
\* for range ticker.C { purgeCache() }: a tick arrives while the goroutine
\* waits for one (a tick that arrives during a purge waits in the channel and
\* starts the next purge as soon as this one returns).
PurgeReceive ==
    /\ alive
    /\ purger.pc = "wait"
    /\ purger' = [purger EXCEPT !.pc = "lock"]
    /\ UNCHANGED <<loginMap, mu, nextToken, now, handler, served, ctrl, user_sessions, alive, DisableTLS>>

\* purgeCache: mu.Lock(); threshold := time.Now().Add(-1 * time.Hour)
PurgeLock ==
    /\ alive
    /\ purger.pc = "lock"
    /\ CanLock(mu)
    /\ mu' = Purger
    /\ purger' = [pc |-> "range", threshold |-> Threshold(now)]
    /\ UNCHANGED <<loginMap, nextToken, now, handler, served, ctrl, user_sessions, alive, DisableTLS>>

\* purgeCache: the range loop and the deferred mu.Unlock()
PurgeRange ==
    /\ alive
    /\ purger.pc = "range"
    /\ loginMap' = PurgeLoop(loginMap, DOMAIN loginMap, purger.threshold)
    /\ mu' = Unlocked
    /\ purger' = [pc |-> "wait", threshold |-> 0]
    /\ UNCHANGED <<nextToken, now, handler, served, ctrl, user_sessions, alive, DisableTLS>>

\* ------------------------------------------------------ package router
\* serveFrontend: the status written and the cache id injected into the page.
\* index.html is served for the login paths and success.html for /success,
\* with the script tag injected when cacheId is not empty; any other path is
\* served as a static file.
\* Faulty variant: the script tag is injected on the path / only.
ServeFrontendRootOnly(path, cacheId, file) ==
    IF path \in {"/", "", "/guest/s/default/", "/success"}
    THEN IF file = "missing"
         THEN [status |-> StatusNotFound, embed |-> NoCacheId]
         ELSE [status |-> StatusOK, embed |-> IF path = "/" THEN cacheId ELSE NoCacheId]
    ELSE IF file = "present"
         THEN [status |-> StatusOK, embed |-> NoCacheId]
         ELSE [status |-> StatusNotFound, embed |-> NoCacheId]
ServeFrontend(path, cacheId, file) ==
    IF path \in {"/", "", "/guest/s/default/", "/success"}
    THEN IF file = "missing"
         THEN [status |-> StatusNotFound, embed |-> NoCacheId]
         ELSE [status |-> StatusOK, embed |-> cacheId]
    ELSE IF file = "present"
         THEN [status |-> StatusOK, embed |-> NoCacheId]
         ELSE [status |-> StatusNotFound, embed |-> NoCacheId]

\* The paths chi routes to a route.
RoutePaths(route) == IF route = "/*" THEN Paths ELSE {route}

\* The handler of the route calls cache.AddToCache for the query q: the
\* wildcard route does when r.URL.Query().Get("id") is not empty, the
\* /success route never does.
\* Faulty variant: an ap parameter alone makes the handler create an entry.
CreatesEntryForAp(route, q) == route = "/*" /\ (q.id # "" \/ q.ap # "")
\* Faulty variant: the /success route creates an entry too.
CreatesEntryOnSuccess(route, q) == q.id # ""
CreatesEntry(route, q) == route = "/*" /\ q.id # ""

\* r.Get("/success", ...) and r.Get("/*", ...): a GET with a query of
\* queries and a path of paths arrives.  On the wildcard route with a
\* non-empty id the handler calls AddToCache; else it calls serveFrontend
\* with an empty cacheId, and is over.
GetRequest(r, queries, paths, max) ==
    /\ alive
    /\ \E route \in {"/success", "/*"}, q \in queries : \E path \in RoutePaths(route) \cap paths :
        IF CreatesEntry(route, q)
        THEN ArrivesWithin(r, [method |-> "GET", path |-> path, id |-> q.id, ap |-> q.ap,
                               pc |-> "add_lock"], max)
        ELSE \E file \in FileStates :
                LET page == ServeFrontend(path, NoCacheId, file)
                IN ArrivesWithin(r, [method |-> "GET", path |-> path, id |-> q.id, pc |-> "done",
                                     status |-> page.status, embed |-> page.embed], max)
    /\ UNCHANGED <<loginMap, mu, nextToken, now, purger, ctrl, user_sessions, alive, DisableTLS>>

\* A GET of any client: every query, every path.
GetArrive(r) == GetRequest(r, Queries, Paths \cup {"/success"}, MaxServed)

\* The GET of a guest the controller redirects to the portal: the login
\* page, with the guest's device in the query.
GuestQueries == {q \in Queries : q.id # ""}
GuestArrive(r) == GetRequest(r, GuestQueries, {"/guest/s/default/"}, MaxServed)

\* AddToCache: mu.Lock()
AddLock(r) ==
    /\ alive
    /\ handler[r].pc = "add_lock"
    /\ CanLock(mu)
    /\ mu' = r
    /\ Set(r, [pc |-> "add_body"])
    /\ UNCHANGED <<loginMap, nextToken, now, purger, served, ctrl, user_sessions, alive, DisableTLS>>

\* AddToCache: the body and the deferred mu.Unlock(); then
\* serveFrontend(w, r, cacheId) with the cache id AddToCache returned.
AddBody(r) ==
    /\ alive
    /\ handler[r].pc = "add_body"
    /\ loginMap' = Added(loginMap, nextToken, handler[r].id, handler[r].ap, now)
    /\ nextToken' = nextToken + 1
    /\ mu' = Unlocked
    /\ \E file \in FileStates :
        LET page == ServeFrontend(handler[r].path, nextToken, file)
        IN End(r, "done", [cacheId |-> nextToken, status |-> page.status, embed |-> page.embed])
    /\ UNCHANGED <<now, purger, served, ctrl, user_sessions, alive, DisableTLS>>

\* The order of handleGuestAuthorization's calls: what follows a step, "done"
\* being the redirect that ends the handler.
\* Faulty variant: the handler skips WriteToDb.
StepAfterNoAudit(step) ==
    CASE step = "decode" -> "get_lock"
      [] step = "get" -> "login"
      [] step = "authorization" -> "rm_lock"
      [] step = "db" -> "rm_lock"
      [] step = "remove" -> "done"
\* Faulty variant: the handler removes the entry before it calls the controller.
StepAfterRemoveFirst(step) ==
    CASE step = "decode" -> "get_lock"
      [] step = "get" -> "rm_lock"
      [] step = "remove" -> "login"
      [] step = "authorization" -> "db"
      [] step = "db" -> "done"
StepAfter(step) ==
    CASE step = "decode" -> "get_lock"
      [] step = "get" -> "login"
      [] step = "authorization" -> "db"
      [] step = "db" -> "rm_lock"
      [] step = "remove" -> "done"

\* A request to the controller sent for the login submission of handler r,
\* with the cookies and the CSRF token it carries; verify tells whether
\* the http.Client that sends it validates the controller's certificate.
ControllerRequest(r, kind, mac, ap, session, verify) ==
    [req |-> handler[r].req, cacheId |-> handler[r].cacheId, kind |-> kind, mac |-> mac, ap |-> ap,
     session |-> session, verify |-> verify]

\* login's client: TLSClientConfig with InsecureSkipVerify: disableTLS.
LoginVerifies(disableTLS) == ~disableTLS

\* authorizeGuest's client: &http.Client{}, the default transport, which
\* validates certificates; authorizeGuest is not passed disableTLS.
AuthorizeVerifies(disableTLS) == TRUE

\* The handler goes on after step with its locals upd changed.  When the
\* next call is AuthorizeGuestProcess, login sends POST /api/auth/login
\* (client.Do); when the handler is over,
\* http.Redirect(w, r, "/success", http.StatusSeeOther).
Advance(r, step, upd) ==
    LET next == StepAfter(step)
    IN CASE next = "done" ->
              /\ End(r, next, With([found |-> handler[r].found, removed |-> handler[r].removed], upd)
                              @@ [status |-> StatusSeeOther, location |-> "/success"])
              /\ ctrl' = ctrl
         [] next = "login" ->
              /\ Set(r, upd @@ [pc |-> next])
              /\ ctrl' = ctrl \cup {ControllerRequest(r, "login", "", "", NoSession,
                                                    LoginVerifies(DisableTLS))}
         [] OTHER ->
              /\ Set(r, upd @@ [pc |-> next])
              /\ ctrl' = ctrl

\* The username and the email a guest sends in the login body of request req.
Name(req) == req
Email(req) == req

\* The cacheId of a login body: absent or empty, a cache id AddToCache has
\* returned, or a string that is no cache id (UUIDs are not guessed).
PresentedIds == {NoCacheId} \cup (1..(nextToken - 1)) \cup {MaxServed + 1}

\* The fields username and email of a JSON login body: both there, or one
\* of them absent (or empty).
Fields == {[username |-> TRUE, email |-> TRUE], [username |-> FALSE, email |-> TRUE],
           [username |-> TRUE, email |-> FALSE]}

\* The bodies of a POST /api/login: text that is not JSON, or a JSON object.
Bodies ==
    {[json |-> FALSE, cacheId |-> NoCacheId, username |-> FALSE, email |-> FALSE]}
        \cup {[json |-> TRUE, cacheId |-> c, username |-> f.username, email |-> f.email] :
                c \in PresentedIds, f \in Fields}

\* json.NewDecoder(r.Body).Decode(&req) returns an error.
\* Faulty variant: the handler goes on after a decode error.
DecodeErrorIgnored(body) == FALSE
\* Faulty variant: a body that lacks a field is rejected like a malformed one.
DecodeErrorOnMissingField(body) ==
    ~body.json \/ body.cacheId = NoCacheId \/ ~body.username \/ ~body.email
DecodeError(body) == ~body.json

\* The LoginRequest decoded from the body of request req.
Decoded(body, req) ==
    [CacheID |-> body.cacheId,
     Name |-> IF body.username THEN Name(req) ELSE NoText,
     Email |-> IF body.email THEN Email(req) ELSE NoText]

\* What a body is, for the record of the request: not JSON, a JSON object
\* with cacheId, username and email, or one that lacks some of them.
BodyKind(body) ==
    IF ~body.json THEN "invalid"
    ELSE IF body.cacheId # NoCacheId /\ body.username /\ body.email THEN "complete"
    ELSE "incomplete"

\* POST /api/login with a body of bodies that json.Decode rejects: 400.
PostRejected(r, bodies) ==
    /\ alive
    /\ \E body \in bodies :
        /\ DecodeError(body)
        /\ Arrives(r, [method |-> "POST", path |-> "/api/login", body |-> BodyKind(body),
                       pc |-> "done", status |-> StatusBadRequest])
    /\ UNCHANGED <<loginMap, mu, nextToken, now, purger, ctrl, user_sessions, alive, DisableTLS>>

\* A malformed POST of any client.
PostMalformed(r) == PostRejected(r, Bodies)

\* POST /api/login with a body of bodies that json.Decode accepts: an absent
\* field decodes to "".  cacheId == "" skips to the redirect.
PostRequest(r, bodies, max) ==
    /\ alive
    /\ \E body \in bodies :
        /\ ~DecodeError(body)
        /\ LET req == Decoded(body, served + 1)
           IN IF req.CacheID # NoCacheId
              THEN ArrivesWithin(r, [method |-> "POST", path |-> "/api/login",
                                     body |-> BodyKind(body), cacheId |-> req.CacheID,
                                     name |-> req.Name, email |-> req.Email,
                                     pc |-> StepAfter("decode")], max)
              ELSE ArrivesWithin(r, [method |-> "POST", path |-> "/api/login",
                                     body |-> BodyKind(body), pc |-> "done",
                                     status |-> StatusSeeOther, location |-> "/success"], max)
    /\ UNCHANGED <<loginMap, mu, nextToken, now, purger, ctrl, user_sessions, alive, DisableTLS>>

\* A well-formed POST of any client.
PostArrive(r) == PostRequest(r, Bodies, MaxServed)

\* The POST of the portal's login form, which sends cacheId, username and
\* email; the cacheId is any string (a guest may submit the form again, or
\* send a cacheId of their own).
GuestBodies == {body \in Bodies : body.json /\ body.username /\ body.email}
GuestSubmit(r) == PostRequest(r, GuestBodies, MaxServed)

\* Two guests at the portal: each arrives from the controller and submits
\* the login form with the cacheId of a page the portal has served.
ServedBodies == {body \in GuestBodies : body.cacheId \in 1..(nextToken - 1)}
TwoGuestsArrive(r) == GetRequest(r, GuestQueries, {"/guest/s/default/"}, MaxServedGuests)
TwoGuestsSubmit(r) == PostRequest(r, ServedBodies, MaxServedGuests)

\* GetRecord: mu.Lock()
GetLock(r) ==
    /\ alive
    /\ handler[r].pc = "get_lock"
    /\ CanLock(mu)
    /\ mu' = r
    /\ Set(r, [pc |-> "get_body"])
    /\ UNCHANGED <<loginMap, nextToken, now, purger, served, ctrl, user_sessions, alive, DisableTLS>>

\* GetRecord: the body and the deferred mu.Unlock(); then the handler reads
\* cacheInfo.ID and cacheInfo.AP for the call of AuthorizeGuestProcess: on a
\* nil cacheInfo that is a nil pointer dereference, the handler panics and
\* net/http closes the connection without a response.
GetBody(r) ==
    /\ alive
    /\ handler[r].pc = "get_body"
    /\ mu' = GetRecordReturns(r)
    /\ loginMap' = GetRecordLeaves(loginMap, handler[r].cacheId)
    /\ LET info == GetRecordValue(loginMap, handler[r].cacheId, now)
       IN IF info = Nil
          THEN End(r, "panicked", [found |-> "no", status |-> NoResponse]) /\ ctrl' = ctrl
          ELSE Advance(r, "get", [found |-> "yes", cacheInfo |-> info])
    /\ UNCHANGED <<nextToken, now, purger, served, user_sessions, alive, DisableTLS>>

\* ----------------------------------------------- package authorization
\* The error AuthorizeGuestProcess returns for a failed login.
LoginError(outcome) ==
    IF outcome = "error" THEN "failed to login to UniFi" ELSE "login failed"

\* The session the controller opens for the login of request req: the
\* cookies and the x-csrf-token of its response.  Every login gets a
\* session of its own.
Session(req) == req

\* login returns an error: client.Do failed, or the status is not 200.
\* Faulty variant: the status of the response is not looked at.
LoginFailedOnErrorOnly(outcome) == outcome = "error"
LoginFailed(outcome) == outcome # "ok"

\* The cookies and the CSRF token login returns for the response to request req.
LoginSession(outcome, req) == IF outcome = "ok" THEN Session(req) ELSE NoSession

\* The cookies and the CSRF token authorizeGuest attaches to its request:
\* the ones AuthorizeGuestProcess got from login and passed to it.
\* Faulty variant: a session is kept for later attempts, and the request
\* carries the one of the first attempt that was authorized.
AttachedFirst(session) ==
    LET sent == {e \in ctrl : e.kind = "authorize"}
    IN IF sent = {} THEN session
       ELSE (CHOOSE e \in sent : \A f \in sent : e.req <= f.req).session
Attached(session) == session

\* login returns: on an error AuthorizeGuestProcess returns it; else
\* authorizeGuest sends the authorize-guest command (client.Do).
LoginResponse(r) ==
    /\ alive
    /\ handler[r].pc = "login"
    /\ \E outcome \in HttpOutcomes :
        IF LoginFailed(outcome)
        THEN Advance(r, "authorization", [loginResp |-> outcome, authErr |-> LoginError(outcome)])
        ELSE /\ Set(r, [pc |-> "authorize", loginResp |-> outcome])
             /\ ctrl' = ctrl \cup {ControllerRequest(r, "authorize", handler[r].cacheInfo.ID,
                                                     handler[r].cacheInfo.AP,
                                                     Attached(LoginSession(outcome, handler[r].req)),
                                                     AuthorizeVerifies(DisableTLS))}
    /\ UNCHANGED <<loginMap, mu, nextToken, now, purger, served, user_sessions, alive, DisableTLS>>

\* The error authorizeGuest returns.
\* Faulty variant: the status of the response is not looked at.
AuthorizeErrorOnErrorOnly(outcome) ==
    IF outcome = "error" THEN "failed to authorize guest" ELSE "nil"
AuthorizeError(outcome) ==
    CASE outcome = "error" -> "failed to authorize guest"
      [] outcome = "non200" -> "authorization failed"
      [] outcome = "ok" -> "nil"

\* authorizeGuest returns, and AuthorizeGuestProcess with it.
AuthorizeResponse(r) ==
    /\ alive
    /\ handler[r].pc = "authorize"
    /\ \E outcome \in HttpOutcomes :
        Advance(r, "authorization", [authResp |-> outcome, authErr |-> AuthorizeError(outcome)])
    /\ UNCHANGED <<loginMap, mu, nextToken, now, purger, served, user_sessions, alive, DisableTLS>>

\* ---------------------------------------------------------- package db
\* The outcomes of WriteToDb that end in log.Fatalf, which exits the process.
\* Faulty variant: a failed insert ends the process too.
FatalOnAnyFailure(outcome) == outcome # "inserted"
Fatal(outcome) == outcome \in {"mkdir_failed", "open_failed", "table_failed"}

\* cache_id TEXT PRIMARY KEY: the INSERT is rejected when the key is taken.
\* Faulty variant: the INSERT replaces the row of a key that is taken.
InsertReplaces(table, cache_id) == TRUE
InsertAccepted(table, cache_id) == cache_id \notin DOMAIN table

\* db.WriteToDb(cacheId, cacheInfo.ID, cacheInfo.AP, req.Name, req.Email, duration)
\* log.Fatalf ends the process, and the handler with it, like a return
\* without a response.
WriteToDb(r) ==
    /\ alive
    /\ handler[r].pc = "db"
    /\ \E outcome \in DbOutcomes :
        /\ outcome = "inserted" => InsertAccepted(user_sessions, handler[r].cacheId)
        /\ user_sessions' =
              IF outcome = "inserted"
              THEN Store(user_sessions, handler[r].cacheId,
                         [id |-> handler[r].cacheInfo.ID, ap |-> handler[r].cacheInfo.AP,
                          name |-> handler[r].name, email |-> handler[r].email])
              ELSE user_sessions
        /\ alive' = ~Fatal(outcome)
        /\ IF Fatal(outcome)
           THEN End(r, "exited", [dbResult |-> outcome]) /\ ctrl' = ctrl
           ELSE Advance(r, "db", [dbResult |-> outcome])
    /\ UNCHANGED <<loginMap, mu, nextToken, now, purger, served, DisableTLS>>

\* RemoveFromCache: mu.Lock()
RemoveLock(r) ==
    /\ alive
    /\ handler[r].pc = "rm_lock"
    /\ CanLock(mu)
    /\ mu' = r
    /\ Set(r, [pc |-> "rm_body"])
    /\ UNCHANGED <<loginMap, nextToken, now, purger, served, ctrl, user_sessions, alive, DisableTLS>>

\* RemoveFromCache: the body and the deferred mu.Unlock()
RemoveBody(r) ==
    /\ alive
    /\ handler[r].pc = "rm_body"
    /\ loginMap' = Removed(loginMap, handler[r].cacheId)
    /\ mu' = RemoveReturns(r, RemoveResult(loginMap, handler[r].cacheId))
    /\ Advance(r, "remove",
               [removed |-> IF RemoveResult(loginMap, handler[r].cacheId) THEN "true" ELSE "false"])
    /\ UNCHANGED <<nextToken, now, purger, served, user_sessions, alive, DisableTLS>>

\* The portal in use: guests arrive from the controller and submit the
\* login form, the clock runs and the purge goroutine sweeps.
Next ==
    \/ Tick
    \/ PurgeReceive
    \/ PurgeLock
    \/ PurgeRange
    \/ \E r \in Reqs :
        \/ GuestArrive(r)
        \/ AddLock(r)
        \/ AddBody(r)
        \/ GuestSubmit(r)
        \/ GetLock(r)
        \/ GetBody(r)
        \/ LoginResponse(r)
        \/ AuthorizeResponse(r)
        \/ WriteToDb(r)
        \/ RemoveLock(r)
        \/ RemoveBody(r)

Spec == Init /\ [][Next]_vars

\* A step of the purge goroutine.
PurgeStep == PurgeReceive \/ PurgeLock \/ PurgeRange

\* The goroutine inside a critical section of mu runs to its deferred
\* mu.Unlock().
LeaveCriticalSection ==
    \/ PurgeRange
    \/ \E r \in Reqs : AddBody(r) \/ GetBody(r) \/ RemoveBody(r)

\* What the scheduling gives the purge.  Time passes and the ticker fires
\* for the lifetime of the process; the Go scheduler runs every goroutine
\* that can run, so the goroutine inside a critical section leaves it and
\* the purge goroutine, which calls nothing that can block but mu.Lock(),
\* goes on whenever it can.  The controller owes no answer (the
\* http.Client has no timeout), and no request has to arrive.
SweepFairness ==
    /\ WF_vars(Tick)
    /\ WF_vars(PurgeStep)
    /\ WF_vars(LeaveCriticalSection)

SpecSweep == Spec /\ SweepFairness

\* A goroutine blocked in mu.Lock() gets the lock.
Acquire(r) == AddLock(r) \/ GetLock(r) \/ RemoveLock(r)

\* What the scheduling gives the goroutines at the lock.  The goroutine
\* inside a critical section runs to its deferred mu.Unlock(); sync.Mutex
\* hands the lock to a goroutine that has waited for it (starvation mode),
\* so a goroutine blocked in mu.Lock() is not passed over for ever while
\* the lock is released again and again.
LockFairness ==
    /\ WF_vars(LeaveCriticalSection)
    /\ SF_vars(PurgeLock)
    /\ \A r \in Reqs : SF_vars(Acquire(r))

\* The goroutines at the lock within one instant of the clock: guests
\* arrive and submit, the purge goroutine sweeps.
NextLock ==
    \/ PurgeReceive
    \/ PurgeLock
    \/ PurgeRange
    \/ \E r \in Reqs :
        \/ GuestArrive(r)
        \/ AddLock(r)
        \/ AddBody(r)
        \/ GuestSubmit(r)
        \/ GetLock(r)
        \/ GetBody(r)
        \/ LoginResponse(r)
        \/ AuthorizeResponse(r)
        \/ WriteToDb(r)
        \/ RemoveLock(r)
        \/ RemoveBody(r)

SpecLock == Init /\ [][NextLock]_vars /\ LockFairness

\* The handlers under the requests of any client, within one purge period
\* (the clock stands and no tick reaches the purge goroutine).
NextRequests ==
    \E r \in Reqs :
        \/ GetArrive(r)
        \/ AddLock(r)
        \/ AddBody(r)
        \/ PostMalformed(r)
        \/ PostArrive(r)
        \/ GetLock(r)
        \/ GetBody(r)
        \/ LoginResponse(r)
        \/ AuthorizeResponse(r)
        \/ WriteToDb(r)
        \/ RemoveLock(r)
        \/ RemoveBody(r)

SpecRequests == Init /\ [][NextRequests]_vars

\* The handlers under the requests of two guests, within one purge period.
NextGuests ==
    \E r \in Reqs :
        \/ TwoGuestsArrive(r)
        \/ AddLock(r)
        \/ AddBody(r)
        \/ TwoGuestsSubmit(r)
        \/ GetLock(r)
        \/ GetBody(r)
        \/ LoginResponse(r)
        \/ AuthorizeResponse(r)
        \/ WriteToDb(r)
        \/ RemoveLock(r)
        \/ RemoveBody(r)

SpecGuests == Init /\ [][NextGuests]_vars

\* The handlers under the requests of any client, in a process started
\* with either value of DISABLE_TLS.
SpecConfigured == InitConfigured /\ [][NextRequests]_vars

\* ====================================================================
\* Properties
\* ====================================================================
\* Cache ids AddToCache may return in a run.
Tokens == 1..MaxServed

\* Handler r takes a step from position pc.
StepsFrom(r, pc) == handler[r].pc = pc /\ handler'[r] # handler[r]

\* The login requests sent to the controller for submissions carrying cacheId.
Attempts(cacheId) == {e \in ctrl : e.kind = "login" /\ e.cacheId = cacheId}

\* C1: two POST /api/login with the same cacheId of a pending entry lead to
\* exactly one authorization attempt and one audit record, and at most one
\* of them finds the entry: no cache id is ever presented to the controller
\* by two login attempts, nor found by two submissions.
C1_OneAttemptPerToken ==
    \A t \in Tokens :
        /\ Cardinality(Attempts(t)) <= 1
        /\ Cardinality({r \in Reqs : handler[r].cacheId = t /\ handler[r].found = "yes"}) <= 1

\* C2: a POST /api/login whose non-empty cacheId names no entry calls
\* neither the controller nor the audit writer, and is answered 303 to
\* /success by a handler that returns normally.
C2_UnknownTokenRedirects ==
    \A r \in Reqs :
        handler[r].found = "no" =>
            /\ handler[r].pc = "done"
            /\ handler[r].status = StatusSeeOther
            /\ handler[r].location = "/success"
            /\ \A e \in ctrl : e.req # handler[r].req
            /\ \A t \in DOMAIN user_sessions :
                  /\ user_sessions[t].name # Name(handler[r].req)
                  /\ user_sessions[t].email # Email(handler[r].req)
\* What a resolve of cacheId returns in the current state.
Resolved(cacheId) == [ID |-> loginMap[cacheId].ID, AP |-> loginMap[cacheId].AP]

\* C3: from create to its removal an entry keeps the deviceId and apId that
\* create was called with, every resolve of its token returns exactly
\* them, and an entry leaves the store only by a consume of its token or by
\* a sweep that finds it older than the max age.
C3_Step ==
    /\ \A t \in DOMAIN loginMap \cap DOMAIN loginMap' : loginMap'[t] = loginMap[t]
    /\ \A t \in DOMAIN loginMap' \ DOMAIN loginMap :
          \E r \in Reqs : /\ StepsFrom(r, "add_body")
                          /\ loginMap'[t].ID = handler[r].id
                          /\ loginMap'[t].AP = handler[r].ap
    /\ \A t \in DOMAIN loginMap \ DOMAIN loginMap' :
          \/ \E r \in Reqs : StepsFrom(r, "rm_body") /\ handler[r].cacheId = t
          \/ purger.pc = "range" /\ loginMap[t].Timestamp < purger.threshold
    /\ \A r \in Reqs :
          StepsFrom(r, "get_body") /\ handler[r].cacheId \in DOMAIN loginMap =>
              /\ handler'[r].found = "yes"
              /\ handler'[r].cacheInfo = Resolved(handler[r].cacheId)
C3_ResolveReturnsOriginal == [][C3_Step]_vars

\* C3 witness: a submission has resolved the token of an entry created one
\* clock unit earlier and holds the identifiers the entry still has.
C3_Witness ==
    \E r \in Reqs :
        /\ handler[r].pc = "login"
        /\ handler[r].cacheId \in DOMAIN loginMap
        /\ loginMap[handler[r].cacheId].Timestamp < now
        /\ handler[r].cacheInfo = [ID |-> "d1", AP |-> "a1"]
        /\ handler[r].cacheInfo = Resolved(handler[r].cacheId)

\* C4: over all calls of consume for a token, only the call that removes
\* the entry returns true; every other call returns false and leaves the
\* store as it was.
C4_Step ==
    \A r \in Reqs :
        StepsFrom(r, "rm_body") =>
            /\ handler'[r].removed \in {"true", "false"}
            /\ handler'[r].removed = "true" =>
                  /\ handler[r].cacheId \in DOMAIN loginMap
                  /\ handler[r].cacheId \notin DOMAIN loginMap'
            /\ handler'[r].removed = "false" => loginMap' = loginMap
C4_ConsumeTrueOnce ==
    /\ [](\A t \in Tokens :
            Cardinality({r \in Reqs : handler[r].cacheId = t /\ handler[r].removed = "true"}) <= 1)
    /\ [][C4_Step]_vars

\* C4 witness: two submissions of one token have both consumed it, one got
\* true and the other false.
C4_Witness ==
    \E r, q \in Reqs :
        /\ handler[r].cacheId = handler[q].cacheId
        /\ handler[r].removed = "true"
        /\ handler[q].removed = "false"

\* C5: once consume(t) has returned true, t is in the store in no later
\* state and every later resolve(t) returns not-found; create never
\* returns a token again.
C5_Step ==
    /\ \A t \in Tokens : t < nextToken /\ t \notin DOMAIN loginMap => t \notin DOMAIN loginMap'
    /\ \A q \in Reqs :
          (/\ StepsFrom(q, "get_body")
           /\ \E r \in Reqs : handler[r].cacheId = handler[q].cacheId /\ handler[r].removed = "true")
          => handler'[q].found = "no"
C5_ConsumedNeverResolvable ==
    /\ [](\A r \in Reqs : handler[r].removed = "true" => handler[r].cacheId \notin DOMAIN loginMap)
    /\ [][C5_Step]_vars

\* C5 witness: a submission resolved a token after another submission's
\* consume of it returned true, and after a later create.
C5_Witness ==
    \E r, q \in Reqs :
        /\ handler[r].removed = "true"
        /\ handler[q].cacheId = handler[r].cacheId
        /\ handler[q].req > handler[r].req
        /\ handler[q].found = "no"
\* The age of an entry exceeds the max age: time.Now() - Timestamp > 1 hour.
Expired(entry) == now - entry.Timestamp > MaxAge

\* The sweep's range loop runs in this step.
Sweeps == purger.pc = "range" /\ purger'.pc = "wait"

\* C6 as stated: a token whose age has passed the max age is not resolvable
\* and a login submission with it sends nothing to the controller, also
\* when no sweep has run since.
C6_Original_Step ==
    \A r \in Reqs :
        (/\ StepsFrom(r, "get_body")
         /\ handler[r].cacheId \in DOMAIN loginMap
         /\ Expired(loginMap[handler[r].cacheId]))
        => handler'[r].found = "no" /\ ctrl' = ctrl
C6_ExpiredNeverResolvable == [][C6_Original_Step]_vars

\* C6 amended: resolve does not look at the age, so an expired token
\* resolves, and the submission goes on to the controller login, as long as
\* its entry is in the store; a sweep removes every entry older than its
\* threshold, and once the entry is gone it stays gone, resolve returns
\* not-found and the submission sends nothing to the controller.
C6_Step ==
    /\ \A r \in Reqs :
          StepsFrom(r, "get_body") =>
              IF handler[r].cacheId \in DOMAIN loginMap
              THEN /\ handler'[r].found = "yes"
                   /\ \E e \in ctrl' : e.req = handler[r].req /\ e.kind = "login"
              ELSE /\ handler'[r].found = "no"
                   /\ ctrl' = ctrl
    /\ Sweeps => \A t \in DOMAIN loginMap :
                    loginMap[t].Timestamp < purger.threshold => t \notin DOMAIN loginMap'
    /\ \A t \in Tokens : t < nextToken /\ t \notin DOMAIN loginMap => t \notin DOMAIN loginMap'
C6_ExpiredResolvableUntilSwept == [][C6_Step]_vars

\* C6 witness: a submission has resolved a token and its login request is
\* with the controller, while the entry, older than the max age, is still
\* in the store.
C6_Witness ==
    \E r \in Reqs :
        /\ handler[r].pc = "login"
        /\ handler[r].found = "yes"
        /\ handler[r].cacheId \in DOMAIN loginMap
        /\ Expired(loginMap[handler[r].cacheId])
        /\ \E e \in ctrl : e.req = handler[r].req /\ e.kind = "login"

\* C7: a sweep takes its threshold as the clock minus the max age when it
\* has the lock, and its loop leaves in the store exactly the entries that
\* are not older than the threshold, unchanged; while the sweep holds the
\* lock no create changes the store, and an entry a create adds carries the
\* clock's time.
C7_Step ==
    /\ purger.pc = "lock" /\ purger'.pc = "range" => purger'.threshold = now - MaxAge
    /\ Sweeps =>
          loginMap' = [t \in {x \in DOMAIN loginMap : loginMap[x].Timestamp >= purger.threshold}
                         |-> loginMap[t]]
    /\ purger.pc = "range" /\ ~Sweeps => loginMap' = loginMap
    /\ \A t \in DOMAIN loginMap' \ DOMAIN loginMap : loginMap'[t].Timestamp = now
C7_SweepRemovesExactlyExpired == [][C7_Step]_vars

\* C7 witness: no submission has run, the first entry is gone and the
\* second, whose age is exactly the max age, is in the store after a sweep,
\* and a create waits for the lock.
C7_Witness ==
    /\ ctrl = {}
    /\ nextToken = 3
    /\ DOMAIN loginMap = {2}
    /\ now - loginMap[2].Timestamp = MaxAge
    /\ purger.pc = "wait"
    /\ \E r \in Reqs : handler[r].pc = "add_lock"

\* The audit write has failed.
DbFailures == DbOutcomes \ {"inserted"}

\* C8 as stated: once AuthorizeGuestProcess has returned, with whatever
\* error, and WriteToDb has been called, the audit record is in the table
\* and the handler is on its way to consume the token and redirect.
C8_AlwaysAuditConsumeRedirect ==
    \A r \in Reqs :
        handler[r].found = "yes" /\ handler[r].authErr # "" /\ handler[r].pc # "db" =>
            /\ handler[r].cacheId \in DOMAIN user_sessions
            /\ handler[r].pc \in {"rm_lock", "rm_body"}

\* C8 amended: whatever AuthorizeGuestProcess returns, the handler calls
\* WriteToDb next; when WriteToDb returns (the record inserted, or the
\* insert failed) the handler consumes the token and redirects with 303 to
\* /success; an inserted record carries the entry's identifiers.
C8_Step ==
    \A r \in Reqs :
        /\ StepsFrom(r, "login") =>
              \/ handler'[r].pc = "authorize"
              \/ handler'[r].pc = "db" /\ handler'[r].authErr \in {"failed to login to UniFi", "login failed"}
        /\ StepsFrom(r, "authorize") =>
              /\ handler'[r].pc = "db"
              /\ handler'[r].authErr \in {"failed to authorize guest", "authorization failed", "nil"}
        /\ StepsFrom(r, "db") /\ alive' =>
              /\ handler'[r].pc = "rm_lock"
              /\ handler'[r].dbResult = "inserted" =>
                    /\ handler[r].cacheId \in DOMAIN user_sessions'
                    /\ user_sessions'[handler[r].cacheId].id = handler[r].cacheInfo.ID
                    /\ user_sessions'[handler[r].cacheId].ap = handler[r].cacheInfo.AP
        /\ StepsFrom(r, "rm_lock") => handler'[r].pc = "rm_body"
        /\ StepsFrom(r, "rm_body") =>
              /\ handler'[r].pc = "done"
              /\ handler'[r].status = StatusSeeOther
              /\ handler'[r].location = "/success"
              /\ handler[r].cacheId \notin DOMAIN loginMap'
C8_AuditConsumeRedirect ==
    /\ [](\A r \in Reqs :
            handler[r].found = "yes" =>
                /\ handler[r].pc \in {"login", "authorize", "db", "rm_lock", "rm_body", "done", "exited"}
                /\ handler[r].pc = "done" =>
                      /\ handler[r].status = StatusSeeOther
                      /\ handler[r].location = "/success"
                      /\ handler[r].removed \in {"true", "false"}
                      /\ handler[r].cacheId \notin DOMAIN loginMap)
    /\ [][C8_Step]_vars

\* C8 witness: the controller has refused the login, the audit record is
\* in the table and the handler is about to consume the token.
C8_Witness ==
    \E r \in Reqs :
        /\ handler[r].pc = "rm_lock"
        /\ handler[r].authErr = "login failed"
        /\ handler[r].dbResult = "inserted"
        /\ handler[r].cacheId \in DOMAIN user_sessions
        /\ handler[r].cacheId \in DOMAIN loginMap

\* C9 as stated: whichever way the audit write fails, the process lives
\* and the handler goes on to consume the token and redirect.
C9_AuditFailureNeverFatal ==
    \A r \in Reqs :
        handler[r].dbResult \in DbFailures =>
            /\ alive
            /\ handler[r].pc \in {"rm_lock", "rm_body"}

\* C9 amended: a failed insert is only logged: the process lives, the
\* table is as it was, and the handler consumes the token and redirects
\* with 303 to /success; a failure to create the directory, to open the
\* database or to create the table ends the process in log.Fatalf, before
\* any response and with the token not consumed by this handler, and
\* nothing runs after it.
C9_Step ==
    /\ alive
    /\ \A r \in Reqs :
          /\ StepsFrom(r, "db") /\ handler'[r].dbResult = "insert_failed" =>
                /\ alive'
                /\ user_sessions' = user_sessions
                /\ handler'[r].pc = "rm_lock"
          /\ StepsFrom(r, "rm_body") /\ handler[r].dbResult = "insert_failed" =>
                /\ handler'[r].pc = "done"
                /\ handler'[r].status = StatusSeeOther
                /\ handler'[r].location = "/success"
                /\ handler[r].cacheId \notin DOMAIN loginMap'
C9_OnlyInsertFailureSurvives ==
    /\ [](\A r \in Reqs :
            /\ handler[r].dbResult = "insert_failed" =>
                  handler[r].pc \in {"rm_lock", "rm_body"}
            /\ handler[r].dbResult \in {"mkdir_failed", "open_failed", "table_failed"} =>
                  /\ ~alive
                  /\ handler[r].pc = "exited"
                  /\ handler[r].status = NoResponse
                  /\ handler[r].removed = ""
            /\ handler[r].pc = "exited" => ~alive)
    /\ [][C9_Step]_vars

\* C9 witness: the insert has failed and the handler, in a live process,
\* is consuming the token.
C9_Witness ==
    \E r \in Reqs :
        /\ alive
        /\ handler[r].pc = "rm_body"
        /\ handler[r].dbResult = "insert_failed"
        /\ handler[r].cacheId \notin DOMAIN user_sessions

\* C10: in one login submission the controller gets a request only once
\* GetRecord has returned the entry, WriteToDb is called only once
\* AuthorizeGuestProcess has returned, and RemoveFromCache only once
\* WriteToDb has returned.
C10_Step ==
    /\ \A e \in ctrl' \ ctrl :
          \E r \in Reqs : /\ handler[r].req = e.req
                          /\ handler[r].pc \in {"get_body", "login"}
                          /\ handler'[r].found = "yes"
                          /\ handler'[r].authErr = ""
                          /\ handler'[r].removed = ""
    /\ \A r \in Reqs :
          /\ StepsFrom(r, "db") => handler[r].authErr # "" /\ handler[r].removed = ""
          /\ StepsFrom(r, "rm_body") => handler[r].authErr # "" /\ handler[r].dbResult # ""
C10_ResolveAuthorizeAuditConsume ==
    /\ [](\A r \in Reqs :
            /\ handler[r].pc \in {"login", "authorize"} =>
                  /\ handler[r].found = "yes"
                  /\ handler[r].authErr = ""
                  /\ handler[r].dbResult = ""
                  /\ handler[r].removed = ""
            /\ handler[r].pc = "db" =>
                  handler[r].authErr # "" /\ handler[r].dbResult = "" /\ handler[r].removed = ""
            /\ handler[r].pc \in {"rm_lock", "rm_body"} =>
                  handler[r].authErr # "" /\ handler[r].dbResult # "" /\ handler[r].removed = ""
            /\ handler[r].removed # "" => handler[r].pc = "done" /\ handler[r].found = "yes")
    /\ [][C10_Step]_vars

\* C10 witness: a handler whose authorization succeeded at the controller
\* and whose audit record is written is consuming the token.
C10_Witness ==
    \E r \in Reqs :
        /\ handler[r].pc = "rm_body"
        /\ handler[r].authErr = "nil"
        /\ handler[r].dbResult = "inserted"
        /\ \E e \in ctrl : e.req = handler[r].req /\ e.kind = "authorize"
\* The goroutines inside a critical section of mu: between mu.Lock() and
\* the deferred mu.Unlock() of AddToCache, GetRecord, RemoveFromCache and
\* purgeCache.
InCriticalSection ==
    {r \in Reqs : handler[r].pc \in {"add_body", "get_body", "rm_body"}}
        \cup (IF purger.pc = "range" THEN {Purger} ELSE {})

\* A controller request of handler r is in progress.
CallsController(r) == handler[r].pc \in {"login", "authorize"}

\* C11: a handler whose controller request (login or authorize) is in
\* progress does not hold mu; whoever holds mu is inside a critical section
\* of the cache, which has no network call, so every AddToCache, GetRecord,
\* RemoveFromCache and purge of the other goroutines gets the lock whatever
\* the controller does.
C11_NoLockAcrossControllerCall ==
    /\ \A r \in Reqs : CallsController(r) => mu # r
    /\ mu # Unlocked => mu \in InCriticalSection
    /\ \A r \in Reqs : handler[r].pc \in {"done", "panicked", "idle", "exited", "db"} => mu # r

\* C11 witness: while one handler waits for the controller's answer to its
\* login, another handler is inside AddToCache with the lock.
C11_Witness ==
    \E r, q \in Reqs :
        /\ handler[r].pc = "login"
        /\ handler[q].pc = "add_body"
        /\ mu = q
        /\ handler[q].req > handler[r].req

\* C12: at most one goroutine is inside a critical section of the cache at
\* a time, it is the holder of mu, and loginMap is read (GetRecord's body)
\* and written only by a step of the holder of mu.
C12_Step ==
    /\ loginMap' # loginMap => mu \in InCriticalSection /\ mu' = Unlocked
    /\ \A r \in Reqs :
          \/ StepsFrom(r, "add_body")
          \/ StepsFrom(r, "get_body")
          \/ StepsFrom(r, "rm_body")
          => mu = r /\ mu' = Unlocked
    /\ purger.pc = "range" /\ purger'.pc # "range" => mu = Purger /\ mu' = Unlocked
    /\ mu # Unlocked /\ mu' # Unlocked => mu' = mu /\ loginMap' = loginMap
C12_MutualExclusion ==
    /\ [](/\ Cardinality(InCriticalSection) <= 1
          /\ InCriticalSection = IF mu = Unlocked THEN {} ELSE {mu})
    /\ [][C12_Step]_vars

\* C12 witness: the purge goroutine is inside its critical section while
\* one handler waits to create an entry and another to resolve one.
C12_Witness ==
    /\ mu = Purger
    /\ purger.pc = "range"
    /\ \E r, q \in Reqs : handler[r].pc = "add_lock" /\ handler[q].pc = "get_lock"
\* The request of handler r arrives in this step.
ArrivesAt(r) == served' = served + 1 /\ handler'[r].req = served'

\* C13: a POST /api/login whose body is not valid JSON is answered 400 by a
\* handler that is over at once: it looks nothing up, removes nothing,
\* sends nothing to the controller and writes no audit record, and the
\* cache, the lock, the controller's requests and the audit table are as
\* they were.
C13_Step ==
    \A r \in Reqs :
        ArrivesAt(r) /\ handler'[r].body = "invalid" =>
            /\ handler'[r].pc = "done"
            /\ handler'[r].status = StatusBadRequest
            /\ UNCHANGED <<loginMap, mu, nextToken, ctrl, user_sessions, alive>>
C13_MalformedBody400 ==
    /\ [](\A r \in Reqs :
            handler[r].body = "invalid" =>
                /\ handler[r].pc = "done"
                /\ handler[r].status = StatusBadRequest
                /\ handler[r].location = ""
                /\ handler[r].found = ""
                /\ handler[r].removed = ""
                /\ \A e \in ctrl : e.req # handler[r].req)
    /\ [][C13_Step]_vars

\* C13 witness: a malformed submission has been answered 400 while an
\* entry is pending in the cache.
C13_Witness ==
    \E r \in Reqs :
        /\ handler[r].method = "POST"
        /\ handler[r].body = "invalid"
        /\ handler[r].status = StatusBadRequest
        /\ DOMAIN loginMap # {}
        /\ ctrl = {}

\* C14 as stated: a POST /api/login with a JSON body that lacks cacheId,
\* username or email is answered with a 4xx status by a handler that does
\* nothing else.
C14_MissingFieldRejected ==
    \A r \in Reqs :
        handler[r].body = "incomplete" =>
            /\ handler[r].pc = "done"
            /\ handler[r].status \in 400..499
            /\ handler[r].found = ""

\* C14 amended: a JSON body that lacks a field is never answered 4xx.
\* Without a cacheId the handler is over at once with 303 to /success and
\* nothing is looked up, sent, written or changed; without a username or
\* an email the empty string takes its place: the submission resolves its
\* token and goes to the controller as any other, and the audit record
\* holds the empty value.
C14_Step ==
    \A r \in Reqs :
        /\ ArrivesAt(r) /\ handler'[r].body = "incomplete" /\ handler'[r].cacheId = NoCacheId =>
              /\ handler'[r].pc = "done"
              /\ handler'[r].status = StatusSeeOther
              /\ handler'[r].location = "/success"
              /\ UNCHANGED <<loginMap, mu, nextToken, ctrl, user_sessions, alive>>
        /\ ArrivesAt(r) /\ handler'[r].body = "incomplete" /\ handler'[r].cacheId # NoCacheId =>
              /\ handler'[r].pc = "get_lock"
              /\ handler'[r].name = NoText \/ handler'[r].email = NoText
        /\ (/\ StepsFrom(r, "get_body")
            /\ handler[r].body = "incomplete"
            /\ handler[r].cacheId \in DOMAIN loginMap)
           => /\ handler'[r].pc = "login"
              /\ \E e \in ctrl' \ ctrl : e.req = handler[r].req
        /\ StepsFrom(r, "db") /\ handler'[r].dbResult = "inserted" =>
              /\ user_sessions'[handler[r].cacheId].name = handler[r].name
              /\ user_sessions'[handler[r].cacheId].email = handler[r].email
C14_MissingFieldNotRejected ==
    /\ [](\A r \in Reqs :
            handler[r].body = "incomplete" =>
                /\ handler[r].status \in {NoResponse, StatusSeeOther}
                /\ handler[r].cacheId = NoCacheId =>
                      /\ handler[r].pc = "done"
                      /\ handler[r].found = ""
                      /\ handler[r].removed = ""
                      /\ \A e \in ctrl : e.req # handler[r].req)
    /\ [][C14_Step]_vars

\* C14 witness: a submission without a username has been authorized and
\* its audit record, with the empty username, is in the table.
C14_Witness ==
    \E r \in Reqs :
        /\ handler[r].body = "incomplete"
        /\ handler[r].pc = "rm_lock"
        /\ handler[r].name = NoText
        /\ handler[r].authErr = "nil"
        /\ handler[r].dbResult = "inserted"
        /\ user_sessions[handler[r].cacheId].name = NoText
        /\ user_sessions[handler[r].cacheId].email = Email(handler[r].req)
\* The paths serveFrontend serves index.html, the login page, for.
LoginPaths == {"/", "/guest/s/default/"}

\* C15: a GET of a login-page path with a device id in its query calls
\* AddToCache once: it adds exactly one entry, under the cache id uuid.New()
\* returned, with the id and ap of the query, and leaves every other entry
\* as it was; the response is no redirect, and the page it serves (when
\* index.html can be read) has that cache id, and no other, injected.
C15_Step ==
    \A r \in Reqs :
        /\ (/\ ArrivesAt(r)
            /\ handler'[r].method = "GET"
            /\ handler'[r].path \in LoginPaths
            /\ handler'[r].id # "")
           => handler'[r].pc = "add_lock" /\ loginMap' = loginMap
        /\ StepsFrom(r, "add_lock") => handler'[r].pc = "add_body" /\ loginMap' = loginMap
        /\ StepsFrom(r, "add_body") /\ handler[r].path \in LoginPaths =>
              /\ nextToken \notin DOMAIN loginMap
              /\ DOMAIN loginMap' = DOMAIN loginMap \cup {nextToken}
              /\ \A t \in DOMAIN loginMap : loginMap'[t] = loginMap[t]
              /\ loginMap'[nextToken].ID = handler[r].id
              /\ loginMap'[nextToken].AP = handler[r].ap
              /\ handler'[r].pc = "done"
              /\ handler'[r].cacheId = nextToken
              /\ handler'[r].location = ""
              /\ handler'[r].status \in {StatusOK, StatusNotFound}
              /\ handler'[r].embed = IF handler'[r].status = StatusOK THEN nextToken ELSE NoCacheId
C15_ArrivalCreatesAndEmbeds ==
    /\ [](\A r \in Reqs :
            /\ handler[r].embed # NoCacheId =>
                  handler[r].method = "GET" /\ handler[r].embed = handler[r].cacheId
            /\ (/\ handler[r].method = "GET"
                /\ handler[r].path \in LoginPaths
                /\ handler[r].id # ""
                /\ handler[r].status = StatusOK)
               => handler[r].embed = handler[r].cacheId /\ handler[r].cacheId # NoCacheId)
    /\ [][C15_Step]_vars

\* C15 witness: the login page served for /guest/s/default/?id=d1&ap=a1
\* carries the cache id of the entry that holds d1 and a1.
C15_Witness ==
    \E r \in Reqs :
        /\ handler[r].method = "GET"
        /\ handler[r].path = "/guest/s/default/"
        /\ handler[r].status = StatusOK
        /\ handler[r].embed = handler[r].cacheId
        /\ handler[r].cacheId \in DOMAIN loginMap
        /\ loginMap[handler[r].cacheId].ID = "d1"
        /\ loginMap[handler[r].cacheId].AP = "a1"
        /\ Cardinality(DOMAIN loginMap) = 1

\* C16: a GET whose query has no id, whatever its path and its ap, is over
\* without a call of the cache: loginMap, the lock and the next cache id
\* are as they were, and the response has no cache id injected.
C16_Step ==
    \A r \in Reqs :
        ArrivesAt(r) /\ handler'[r].method = "GET" /\ handler'[r].id = "" =>
            /\ handler'[r].pc = "done"
            /\ handler'[r].embed = NoCacheId
            /\ handler'[r].cacheId = NoCacheId
            /\ UNCHANGED <<loginMap, mu, nextToken>>
C16_NoDeviceNoEntry ==
    /\ [](\A r \in Reqs :
            handler[r].method = "GET" /\ handler[r].id = "" =>
                /\ handler[r].pc = "done"
                /\ handler[r].embed = NoCacheId
                /\ handler[r].cacheId = NoCacheId)
    /\ [][C16_Step]_vars

\* C16 witness: the login page has been served for a query with no id,
\* with no cache id in it, while the one entry created before is in the
\* store.
C16_Witness ==
    \E r \in Reqs :
        /\ handler[r].method = "GET"
        /\ handler[r].path = "/guest/s/default/"
        /\ handler[r].id = ""
        /\ handler[r].status = StatusOK
        /\ handler[r].embed = NoCacheId
        /\ handler[r].req = 2
        /\ DOMAIN loginMap = {1}
        /\ nextToken = 2

\* C17: a GET /success, with or without id and ap in its query, is over
\* without a call of the cache: loginMap, the lock and the next cache id
\* are as they were, and the response has no cache id injected.
C17_Step ==
    \A r \in Reqs :
        ArrivesAt(r) /\ handler'[r].path = "/success" =>
            /\ handler'[r].pc = "done"
            /\ handler'[r].embed = NoCacheId
            /\ handler'[r].cacheId = NoCacheId
            /\ UNCHANGED <<loginMap, mu, nextToken>>
C17_SuccessNeverCreates ==
    /\ [](\A r \in Reqs :
            handler[r].path = "/success" =>
                /\ handler[r].pc = "done"
                /\ handler[r].embed = NoCacheId
                /\ handler[r].cacheId = NoCacheId)
    /\ [][C17_Step]_vars

\* C17 witness: the success page has been served for /success?id=d1&ap=a1
\* with no cache id in it, and the store is still empty.
C17_Witness ==
    \E r \in Reqs :
        /\ handler[r].path = "/success"
        /\ handler[r].id = "d1"
        /\ handler[r].status = StatusOK
        /\ handler[r].embed = NoCacheId
        /\ loginMap = << >>
        /\ nextToken = 1

\* C18: GetRecord, from its mu.Lock() to its return, leaves loginMap as it
\* was, whether its cacheID is a key of the map or not: the same keys, and
\* under every key the same ID, AP and Timestamp.
C18_Step ==
    \A r \in Reqs :
        StepsFrom(r, "get_lock") \/ StepsFrom(r, "get_body") =>
            /\ DOMAIN loginMap' = DOMAIN loginMap
            /\ \A t \in DOMAIN loginMap : loginMap'[t] = loginMap[t]
C18_ResolveReadOnly == [][C18_Step]_vars

\* C18 witness: one submission has resolved the token of an entry and
\* another a cacheId that is no key of the map, and the entry created
\* is in the store as AddToCache stored it.
C18_Witness ==
    \E r, q \in Reqs :
        /\ handler[r].pc = "login"
        /\ handler[r].found = "yes"
        /\ handler[r].cacheId = 1
        /\ handler[q].found = "no"
        /\ handler[q].cacheId \notin DOMAIN loginMap
        /\ DOMAIN loginMap = {1}
        /\ loginMap[1] = [ID |-> "d1", AP |-> "a1", Timestamp |-> 0]

\* The requests of a kind the controller got from the attempt of request req.
Sent(req, kind) == {e \in ctrl : e.req = req /\ e.kind = kind}
\* The same, after the step.
SentAfter(req, kind) == {e \in ctrl' : e.req = req /\ e.kind = kind}

\* C19: an attempt (one call of AuthorizeGuestProcess) sends one login
\* request, when it starts, and then at most one authorize request, when
\* its login has returned, and never goes back to send either again; the
\* login request carries no session, and the authorize request carries the
\* session the controller opened for the login of the same attempt, which
\* no other attempt's authorize request carries.
C19_Step ==
    /\ Cardinality(ctrl' \ ctrl) <= 1
    /\ ctrl \subseteq ctrl'
    /\ \A e \in ctrl' \ ctrl :
          \E r \in Reqs :
              /\ handler[r].req = e.req
              /\ Sent(e.req, e.kind) = {}
              /\ IF e.kind = "login"
                 THEN StepsFrom(r, "get_body") /\ handler'[r].pc = "login"
                 ELSE StepsFrom(r, "login") /\ handler'[r].pc = "authorize"
    /\ \A r \in Reqs :
          /\ StepsFrom(r, "get_body") /\ handler'[r].pc = "login" =>
                ctrl' \ ctrl = SentAfter(handler[r].req, "login")
          /\ StepsFrom(r, "login") => handler'[r].pc \in {"authorize", "db"}
          /\ StepsFrom(r, "authorize") => handler'[r].pc = "db" /\ ctrl' = ctrl
          /\ handler[r].pc \in {"db", "rm_lock", "rm_body"} /\ handler'[r].req = handler[r].req =>
                handler'[r].pc \notin {"login", "authorize"}
C19_OwnLoginPerAttempt ==
    /\ [](/\ \A e \in ctrl :
                /\ Cardinality(Sent(e.req, "login")) = 1
                /\ Cardinality(Sent(e.req, "authorize")) <= 1
                /\ e.kind = "login" => e.session = NoSession
                /\ e.kind = "authorize" =>
                      /\ e.session = Session(e.req)
                      /\ \A f \in ctrl : f.kind = "authorize" /\ f.req # e.req => f.session # e.session
          /\ \A r \in Reqs :
                CallsController(r) => Cardinality(Sent(handler[r].req, "login")) = 1)
    /\ [][C19_Step]_vars

\* C19 witness: two attempts run at the same time, both have logged in and
\* each has sent its authorize request with the session of its own login.
C19_Witness ==
    \E r, q \in Reqs :
        /\ r # q
        /\ handler[r].pc = "authorize"
        /\ handler[q].pc = "authorize"
        /\ \E e \in Sent(handler[r].req, "authorize") : e.session = Session(handler[r].req)
        /\ \E e \in Sent(handler[q].req, "authorize") : e.session = Session(handler[q].req)
        /\ Cardinality({e \in ctrl : e.kind = "login"}) = 2

\* The errors AuthorizeGuestProcess returns when login has failed.
LoginErrors == {"failed to login to UniFi", "login failed"}

\* C20: when the login request fails or its response is not a 200,
\* AuthorizeGuestProcess returns login's error and the attempt sends no
\* authorize request; an authorize request is sent only in the step in
\* which its attempt's login has returned with a 200, and carries the
\* session of that login.
C20_Step ==
    \A r \in Reqs :
        /\ StepsFrom(r, "login") =>
              IF handler'[r].loginResp = "ok"
              THEN /\ handler'[r].pc = "authorize"
                   /\ handler'[r].authErr = ""
                   /\ ctrl' \ ctrl = SentAfter(handler[r].req, "authorize")
                   /\ SentAfter(handler[r].req, "authorize") # {}
              ELSE /\ handler'[r].loginResp \in {"error", "non200"}
                   /\ handler'[r].pc = "db"
                   /\ handler'[r].authErr = LoginError(handler'[r].loginResp)
                   /\ ctrl' = ctrl
        /\ ~StepsFrom(r, "login") =>
              SentAfter(handler[r].req, "authorize") = Sent(handler[r].req, "authorize")
C20_NoAuthorizeAfterFailedLogin ==
    /\ [](/\ \A r \in Reqs :
                /\ handler[r].loginResp \in {"error", "non200"} =>
                      /\ handler[r].authErr \in LoginErrors
                      /\ Sent(handler[r].req, "authorize") = {}
                /\ handler[r].authErr \in LoginErrors =>
                      /\ handler[r].loginResp \in {"error", "non200"}
                      /\ Sent(handler[r].req, "authorize") = {}
                /\ handler[r].pc = "authorize" => handler[r].loginResp = "ok"
          /\ \A e \in ctrl :
                e.kind = "authorize" => e.session # NoSession /\ Sent(e.req, "login") # {})
    /\ [][C20_Step]_vars

\* C20 witness: the controller has answered an attempt's login with a
\* status that is not 200: the attempt is over with the error login failed,
\* the handler is at the audit write and the controller has the login
\* request of the attempt and no authorize request.
C20_Witness ==
    \E r \in Reqs :
        /\ handler[r].pc = "db"
        /\ handler[r].loginResp = "non200"
        /\ handler[r].authErr = "login failed"
        /\ Sent(handler[r].req, "login") # {}
        /\ \A e \in ctrl : e.kind # "authorize"

\* The errors authorizeGuest returns.
AuthorizeErrors == {"failed to authorize guest", "authorization failed"}

\* C21: AuthorizeGuestProcess returns nil exactly when the login request
\* and the authorize request were both answered 200; an authorize response
\* that is not a 200 gives the error authorization failed, which no failed
\* login gives.
C21_Step ==
    \A r \in Reqs :
        /\ StepsFrom(r, "login") /\ handler'[r].pc = "db" =>
              /\ handler'[r].loginResp # "ok"
              /\ handler'[r].authResp = ""
              /\ handler'[r].authErr \in LoginErrors
        /\ StepsFrom(r, "authorize") =>
              /\ handler[r].loginResp = "ok"
              /\ handler'[r].loginResp = "ok"
              /\ handler'[r].authResp \in HttpOutcomes
              /\ handler'[r].authErr = "nil" <=> handler'[r].authResp = "ok"
              /\ handler'[r].authResp = "non200" <=> handler'[r].authErr = "authorization failed"
C21_SuccessIffBoth200 ==
    /\ [](\A r \in Reqs :
            handler[r].authErr # "" =>
                /\ handler[r].authErr = "nil" <=>
                      handler[r].loginResp = "ok" /\ handler[r].authResp = "ok"
                /\ handler[r].authErr = "authorization failed" <=>
                      handler[r].loginResp = "ok" /\ handler[r].authResp = "non200"
                /\ handler[r].authErr = "login failed" <=> handler[r].loginResp = "non200"
                /\ handler[r].authErr \in LoginErrors \cup AuthorizeErrors \cup {"nil"})
    /\ LoginErrors \cap AuthorizeErrors = {}
    /\ [][C21_Step]_vars

\* C21 witness: of two attempts, one has returned nil after two 200
\* responses, and the other authorization failed after a 200 to its login
\* and another status to its authorize request.
C21_Witness ==
    \E r, q \in Reqs :
        /\ handler[r].pc = "db"
        /\ handler[r].loginResp = "ok"
        /\ handler[r].authResp = "ok"
        /\ handler[r].authErr = "nil"
        /\ handler[q].pc = "db"
        /\ handler[q].loginResp = "ok"
        /\ handler[q].authResp = "non200"
        /\ handler[q].authErr = "authorization failed"

\* C22: a purge that takes its threshold when the age of an entry exceeds
\* the max age removes the entry, and while the process lives the purge
\* goroutine gets a tick, the lock and to the end of its loop again and
\* again: every entry whose expiry the clock reaches is removed from the
\* store, by a submission or by a purge.
C22_Step ==
    \A t \in DOMAIN loginMap :
        /\ purger.pc = "lock" /\ purger'.pc = "range" /\ Expired(loginMap[t]) =>
              loginMap[t].Timestamp < purger'.threshold
        /\ Sweeps /\ loginMap[t].Timestamp < purger.threshold => t \notin DOMAIN loginMap'
C22_EveryEntrySwept ==
    /\ [][C22_Step]_vars
    /\ \A t \in Tokens :
          (t \in DOMAIN loginMap /\ loginMap[t].Timestamp + MaxAge < MaxTime)
              ~> (t \notin DOMAIN loginMap \/ ~alive)

\* C22 witness: no submission has named the entry, its age has exceeded
\* the max age and a purge has just removed it.
C22_Witness ==
    /\ nextToken = 2
    /\ loginMap = << >>
    /\ ctrl = {}
    /\ \A r \in Reqs : handler[r].method # "POST"
    /\ now = MaxTime
    /\ purger.pc = "wait"
    /\ alive

\* C23: a submission holds, from GetRecord's return to its end, the ID and
\* AP the entry of its cacheId has (which are those AddToCache stored, as
\* an entry is never written again); its authorize-guest command carries
\* them, and its audit record is keyed by its cacheId and carries them and
\* the username and email of its own body, whatever other submissions run
\* at the same time.
C23_Step ==
    /\ \A t \in DOMAIN loginMap \cap DOMAIN loginMap' :
          loginMap'[t].ID = loginMap[t].ID /\ loginMap'[t].AP = loginMap[t].AP
    /\ \A r \in Reqs :
          /\ StepsFrom(r, "get_body") /\ handler[r].cacheId \in DOMAIN loginMap =>
                handler'[r].cacheInfo = Resolved(handler[r].cacheId)
          /\ handler[r].cacheInfo # Nil /\ handler'[r].pc \in {"login", "authorize", "db", "rm_lock"} =>
                /\ handler'[r].cacheInfo = handler[r].cacheInfo
                /\ handler'[r].cacheId = handler[r].cacheId
                /\ handler'[r].name = handler[r].name
                /\ handler'[r].email = handler[r].email
    /\ \A e \in ctrl' \ ctrl :
          e.kind = "authorize" =>
              \E r \in Reqs :
                  /\ StepsFrom(r, "login")
                  /\ e.req = handler[r].req
                  /\ e.cacheId = handler[r].cacheId
                  /\ e.mac = handler[r].cacheInfo.ID
                  /\ e.ap = handler[r].cacheInfo.AP
    /\ \A t \in DOMAIN user_sessions' :
          IF t \in DOMAIN user_sessions
          THEN user_sessions'[t] = user_sessions[t]
          ELSE \E r \in Reqs :
                  /\ StepsFrom(r, "db")
                  /\ t = handler[r].cacheId
                  /\ user_sessions'[t].id = handler[r].cacheInfo.ID
                  /\ user_sessions'[t].ap = handler[r].cacheInfo.AP
                  /\ user_sessions'[t].name = handler[r].name
                  /\ user_sessions'[t].email = handler[r].email
                  /\ handler[r].name = Name(handler[r].req)
                  /\ handler[r].email = Email(handler[r].req)
C23_OwnIdentifiers ==
    /\ [](/\ \A r \in Reqs :
                handler[r].cacheInfo # Nil /\ handler[r].cacheId \in DOMAIN loginMap =>
                    handler[r].cacheInfo = Resolved(handler[r].cacheId)
          /\ \A e \in ctrl :
                e.kind = "authorize" /\ e.cacheId \in DOMAIN loginMap =>
                    e.mac = loginMap[e.cacheId].ID /\ e.ap = loginMap[e.cacheId].AP
          /\ \A t \in DOMAIN user_sessions \cap DOMAIN loginMap :
                user_sessions[t].id = loginMap[t].ID /\ user_sessions[t].ap = loginMap[t].AP)
    /\ [][C23_Step]_vars

\* C23 witness: two guests, d1 at a1 and d2 with no ap, have submitted
\* their forms at the same time: each authorize-guest command and each
\* audit record has the identifiers of the guest whose cacheId it was sent
\* for, and the name of that guest's submission.
C23_Witness ==
    \E r, q \in Reqs :
        /\ handler[r].pc = "rm_lock"
        /\ handler[q].pc = "rm_lock"
        /\ handler[r].cacheId = 1
        /\ handler[q].cacheId = 2
        /\ loginMap[1].ID = "d1" /\ loginMap[1].AP = "a1"
        /\ loginMap[2].ID = "d2" /\ loginMap[2].AP = ""
        /\ \E e, f \in ctrl :
              /\ e.kind = "authorize" /\ e.req = handler[r].req /\ e.mac = "d1" /\ e.ap = "a1"
              /\ f.kind = "authorize" /\ f.req = handler[q].req /\ f.mac = "d2" /\ f.ap = ""
        /\ DOMAIN user_sessions = {1, 2}
        /\ user_sessions[1] = [id |-> "d1", ap |-> "a1", name |-> Name(handler[r].req),
                               email |-> Email(handler[r].req)]
        /\ user_sessions[2] = [id |-> "d2", ap |-> "", name |-> Name(handler[q].req),
                               email |-> Email(handler[q].req)]

\* The entry submission r resolved has left the store before r's
\* RemoveFromCache.
Gone(r) ==
    /\ handler[r].found = "yes"
    /\ handler[r].pc \in {"login", "authorize", "db", "rm_lock", "rm_body"}
    /\ handler[r].cacheId \notin DOMAIN loginMap

\* C24: a submission whose entry a purge or another submission removes
\* between its GetRecord and its RemoveFromCache goes on like any other:
\* no call it makes waits for the entry, its authorize-guest command and
\* its audit record carry the ID and AP GetRecord returned, its
\* RemoveFromCache returns false and leaves the map as it is, without the
\* entry, and the handler redirects with 303 to /success.
C24_Step ==
    \A r \in Reqs :
        Gone(r) =>
            /\ handler'[r].req = handler[r].req /\ ~Over(handler'[r]) /\ alive' =>
                  /\ handler'[r].cacheInfo = handler[r].cacheInfo
                  /\ handler'[r].cacheId \notin DOMAIN loginMap'
            /\ \A e \in ctrl' \ ctrl :
                  e.req = handler[r].req =>
                      /\ e.kind = "authorize"
                      /\ e.mac = handler[r].cacheInfo.ID
                      /\ e.ap = handler[r].cacheInfo.AP
            /\ StepsFrom(r, "db") /\ handler'[r].dbResult = "inserted" =>
                  /\ user_sessions'[handler[r].cacheId].id = handler[r].cacheInfo.ID
                  /\ user_sessions'[handler[r].cacheId].ap = handler[r].cacheInfo.AP
            /\ StepsFrom(r, "db") /\ alive' => handler'[r].pc = "rm_lock"
            /\ StepsFrom(r, "rm_lock") => handler'[r].pc = "rm_body"
            /\ StepsFrom(r, "rm_body") =>
                  /\ handler'[r].removed = "false"
                  /\ loginMap' = loginMap
                  /\ handler'[r].pc = "done"
                  /\ handler'[r].status = StatusSeeOther
                  /\ handler'[r].location = "/success"
C24_RemovedMeanwhileCompletes ==
    /\ [](\A r \in Reqs :
            /\ Gone(r) /\ alive =>
                  /\ handler[r].cacheInfo # Nil
                  /\ handler[r].pc = "db" => ENABLED WriteToDb(r)
                  /\ handler[r].pc = "rm_lock" /\ mu = Unlocked => ENABLED RemoveLock(r)
                  /\ handler[r].pc = "rm_body" => ENABLED RemoveBody(r)
            /\ handler[r].removed = "false" =>
                  /\ handler[r].pc = "done"
                  /\ handler[r].found = "yes"
                  /\ handler[r].status = StatusSeeOther
                  /\ handler[r].location = "/success"
                  /\ handler[r].cacheId \notin DOMAIN loginMap)
    /\ [][C24_Step]_vars

\* C24 witness: the only submission there was resolved its entry, a purge
\* removed the entry, and the submission has been authorized, audited and
\* redirected, its RemoveFromCache returning false.
C24_Witness ==
    \E r \in Reqs :
        /\ handler[r].pc = "done"
        /\ handler[r].found = "yes"
        /\ handler[r].removed = "false"
        /\ handler[r].status = StatusSeeOther
        /\ handler[r].cacheId \notin DOMAIN loginMap
        /\ \A e \in ctrl : e.req = handler[r].req
        /\ \E e \in ctrl : e.kind = "authorize"
        /\ DOMAIN user_sessions = {handler[r].cacheId}

\* C25: user_sessions has one row per cache_id at most, and a row that is
\* in the table stays as it was inserted: a WriteToDb for a cache_id that
\* has a row inserts nothing (the INSERT fails, which is logged, when
\* WriteToDb gets that far) and leaves the table as it was.
C25_Step ==
    /\ \A t \in DOMAIN user_sessions :
          t \in DOMAIN user_sessions' /\ user_sessions'[t] = user_sessions[t]
    /\ Cardinality(DOMAIN user_sessions' \ DOMAIN user_sessions) <= 1
    /\ \A r \in Reqs :
          StepsFrom(r, "db") /\ handler[r].cacheId \in DOMAIN user_sessions =>
              /\ user_sessions' = user_sessions
              /\ handler'[r].dbResult \in DbFailures
              /\ alive' => handler'[r].dbResult = "insert_failed"
C25_OneRecordPerToken ==
    /\ [](\A r \in Reqs :
            handler[r].dbResult = "inserted" =>
                /\ handler[r].cacheId \in DOMAIN user_sessions
                /\ user_sessions[handler[r].cacheId].name = handler[r].name
                /\ user_sessions[handler[r].cacheId].email = handler[r].email)
    /\ [][C25_Step]_vars

\* C25 witness: of two submissions of one cacheId the first has its record
\* in the table, and the INSERT of the second has failed: the record is the
\* first one's.
C25_Witness ==
    \E r, q \in Reqs :
        /\ handler[r].cacheId = handler[q].cacheId
        /\ handler[r].dbResult = "inserted"
        /\ handler[q].dbResult = "insert_failed"
        /\ handler[q].pc = "rm_lock"
        /\ user_sessions[handler[r].cacheId].name = Name(handler[r].req)
        /\ user_sessions[handler[r].cacheId].name # Name(handler[q].req)

\* C26: the TLS-verification setting governs both controller requests of an
\* authorization attempt: with verification disabled the login request and
\* the authorize request are both sent without certificate validation, with
\* verification enabled both are validated.
C26_TlsSettingGovernsBoth ==
    \A e \in ctrl : e.verify = ~DisableTLS

\* C27: a GET on the wildcard route calls AddToCache if and only if the id
\* of its query is not empty, whatever its ap, its path, the file
\* serveFrontend finds for it and the entries the device has already: the
\* call adds exactly one entry, under a cache id no entry and no earlier
\* request has, and leaves every other entry as it was; a GET without id
\* adds none.
C27_Step ==
    \A r \in Reqs :
        /\ (ArrivesAt(r) /\ handler'[r].method = "GET" /\ handler'[r].path # "/success") =>
              /\ handler'[r].pc = "add_lock" <=> handler'[r].id # ""
              /\ handler'[r].pc = "done" <=> handler'[r].id = ""
              /\ UNCHANGED <<loginMap, nextToken>>
        /\ StepsFrom(r, "add_lock") => handler'[r].pc = "add_body" /\ UNCHANGED <<loginMap, nextToken>>
        /\ StepsFrom(r, "add_body") =>
              /\ handler[r].id # ""
              /\ nextToken \notin DOMAIN loginMap
              /\ \A q \in Reqs : handler[q].cacheId # nextToken
              /\ DOMAIN loginMap' = DOMAIN loginMap \cup {nextToken}
              /\ \A t \in DOMAIN loginMap : loginMap'[t] = loginMap[t]
              /\ loginMap'[nextToken].ID = handler[r].id
              /\ loginMap'[nextToken].AP = handler[r].ap
              /\ handler'[r].pc = "done"
              /\ handler'[r].cacheId = nextToken
              /\ handler'[r].status \in {StatusOK, StatusNotFound}
C27_EveryDeviceGetCreates ==
    /\ [](\A r \in Reqs :
            /\ handler[r].pc \in {"add_lock", "add_body"} =>
                  /\ handler[r].method = "GET"
                  /\ handler[r].path # "/success"
                  /\ handler[r].id # ""
            /\ (handler[r].method = "GET" /\ handler[r].path # "/success" /\ handler[r].pc = "done") =>
                  (handler[r].cacheId # NoCacheId <=> handler[r].id # "")
            /\ \A q \in Reqs :
                  (/\ q # r
                   /\ handler[r].method = "GET"
                   /\ handler[q].method = "GET"
                   /\ handler[r].cacheId # NoCacheId)
                  => handler[q].cacheId # handler[r].cacheId)
    /\ [][C27_Step]_vars

\* C27 witness: the device d2, with no ap in its queries, has two entries
\* under two cache ids: one from a GET of the login page, one from a GET of
\* a static file that was not found.
C27_Witness ==
    \E r, q \in Reqs :
        /\ handler[r].method = "GET" /\ handler[q].method = "GET"
        /\ handler[r].pc = "done" /\ handler[q].pc = "done"
        /\ handler[r].path = "/guest/s/default/"
        /\ handler[q].path = "/app.js"
        /\ handler[q].status = StatusNotFound
        /\ handler[r].id = "d2" /\ handler[q].id = "d2"
        /\ handler[r].cacheId # handler[q].cacheId
        /\ {handler[r].cacheId, handler[q].cacheId} \subseteq DOMAIN loginMap
        /\ loginMap[handler[r].cacheId].ID = "d2"
        /\ loginMap[handler[q].cacheId].ID = "d2"
        /\ loginMap[handler[q].cacheId].AP = ""

\* The goroutines blocked in mu.Lock().
Waiting == {r \in Reqs : handler[r].pc \in {"add_lock", "get_lock", "rm_lock"}}
               \cup {g \in {Purger} : purger.pc = "lock"}

\* C28: mu is released on every path.  Every AddToCache, GetRecord,
\* RemoveFromCache and purgeCache that has taken mu returns with mu
\* unlocked, also the GetRecord whose handler panics on the nil it returned;
\* mu is held by a goroutine inside one of these four functions only, which
\* can always go on to its unlock, and a goroutine that waits for a free mu
\* can take it: no state of the running process is a deadlock.  Under fair
\* scheduling every goroutine that waits for mu acquires it, as long as
\* the process lives.
C28_Step ==
    /\ \A r \in Reqs :
          /\ (StepsFrom(r, "add_body") \/ StepsFrom(r, "get_body") \/ StepsFrom(r, "rm_body")) =>
                mu = r /\ mu' = Unlocked
          /\ (handler[r].pc # "panicked" /\ handler'[r].pc = "panicked") =>
                mu = r /\ mu' = Unlocked
    /\ (purger.pc = "range" /\ purger'.pc # "range") => mu = Purger /\ mu' = Unlocked
    /\ (mu # Unlocked /\ mu' # mu) => mu' = Unlocked
C28_LockAlwaysReleased ==
    /\ [](/\ \A r \in Reqs : mu = r <=> handler[r].pc \in {"add_body", "get_body", "rm_body"}
          /\ mu = Purger <=> purger.pc = "range"
          /\ (alive /\ mu # Unlocked) => ENABLED LeaveCriticalSection
          /\ (alive /\ mu = Unlocked) =>
                /\ \A r \in Waiting \cap Reqs : ENABLED Acquire(r)
                /\ Purger \in Waiting => ENABLED PurgeLock)
    /\ [][C28_Step]_vars
    /\ \A g \in Reqs \cup {Purger} : (g \in Waiting) ~> (mu = g \/ ~alive)

\* C28 witness: a handler has panicked on the nil GetRecord returned to
\* it; after that another handler holds mu inside AddToCache, and the purge
\* goroutine waits for mu.
C28_Witness ==
    \E r, q \in Reqs :
        /\ alive
        /\ handler[r].pc = "panicked"
        /\ handler[q].pc = "add_body"
        /\ handler[q].req > handler[r].req
        /\ mu = q
        /\ Purger \in Waiting

====
